---------------------------- MODULE Spec2Model ----------------------------
(***************************************************************************)
(* graphviz.backend.rendering: render(), get_rendering_format() and        *)
(* _get_rendering_format(), as a state machine over successive render()    *)
(* calls against one filesystem.                                           *)
(*                                                                         *)
(* Strings.  A Python str is a sequence of tokens.  The separators "/"     *)
(* and "." are tokens of their own; every other token is a non-empty run   *)
(* of characters holding neither separator ("spam", "png", "PNG").  So     *)
(* 'doctest-output/spam.gv' is <<"doctest-output", "/", "spam", ".",       *)
(* "gv">>, concatenation is \o and every search for a separator            *)
(* (rfind, partition, split) works on tokens exactly as on characters.     *)
(* Paths follow posixpath.                                                 *)
(***************************************************************************)
EXTENDS Integers, Sequences, FiniteSets, TLC

SEP == "/"
EXTSEP == "."

\* Python's None, a value that is no str of the model.
None == <<"<None>">>

S(a) == <<a>>

\* str.lower() on one token: the upper-case spellings the inputs use.
LowerTok(t) ==
    CASE t = "PNG" -> "png"
      [] t = "GV" -> "gv"
      [] t = "Pdf" -> "pdf"
      [] OTHER -> t

\* str.lower()
Lower(s) == [i \in 1..Len(s) |-> LowerTok(s[i])]

\* str.rfind(tok): the last index of tok in s, 0 when there is none
\* (Python's -1, shifted by the 1-based indexing).
RFind(s, tok) ==
    LET hits == {i \in 1..Len(s) : s[i] = tok}
    IN IF hits = {} THEN 0 ELSE CHOOSE i \in hits : \A j \in hits : j <= i

\* s[:n] and s[n:] for a 0-based cut n.
Prefix(s, n) == SubSeq(s, 1, n)
Suffix(s, n) == SubSeq(s, n + 1, Len(s))

AllSep(s) == \A i \in 1..Len(s) : s[i] = SEP

RECURSIVE RStripSep(_)
\* str.rstrip('/')
RStripSep(s) ==
    IF s # <<>> /\ s[Len(s)] = SEP THEN RStripSep(Prefix(s, Len(s) - 1)) ELSE s

\* os.path.split(p): (head, tail) around the last "/"; head loses its
\* trailing slashes unless it is made of slashes only.
Split(p) ==
    LET i == RFind(p, SEP)
        head == Prefix(p, i)
        tail == Suffix(p, i)
    IN [head |-> IF head # <<>> /\ ~AllSep(head) THEN RStripSep(head) ELSE head,
        tail |-> tail]

\* os.path.splitext(p): (root, ext); ext starts at the last "." of the last
\* component, unless only dots precede it there (a leading-dot name has no
\* extension).
Splitext(p) ==
    LET sepIndex == RFind(p, SEP)
        dotIndex == RFind(p, EXTSEP)
    IN IF dotIndex > sepIndex
          /\ \E k \in (sepIndex + 1)..(dotIndex - 1) : p[k] # EXTSEP
       THEN [root |-> Prefix(p, dotIndex - 1), ext |-> Suffix(p, dotIndex - 1)]
       ELSE [root |-> p, ext |-> <<>>]

\* os.path.join(a, b)
Join(a, b) ==
    IF b # <<>> /\ b[1] = SEP THEN b
    ELSE IF a = <<>> \/ a[Len(a)] = SEP THEN a \o b
    ELSE a \o <<SEP>> \o b

\* str.split('/'): the components between the slashes, empty ones included.
RECURSIVE Components(_)
Components(p) ==
    LET hits == {i \in 1..Len(p) : p[i] = SEP}
    IN IF hits = {} THEN <<p>>
       ELSE LET i == CHOOSE i \in hits : \A j \in hits : i <= j
            IN <<Prefix(p, i - 1)>> \o Components(Suffix(p, i))

CURDIR == <<EXTSEP>>
PARDIR == <<EXTSEP, EXTSEP>>

\* The loop of posixpath.normpath over the components.
RECURSIVE NormComps(_, _, _)
NormComps(comps, acc, initial) ==
    IF comps = <<>> THEN acc
    ELSE LET comp == Head(comps)
             rest == Tail(comps)
         IN IF comp = <<>> \/ comp = CURDIR THEN NormComps(rest, acc, initial)
            ELSE IF comp # PARDIR
                    \/ (initial = 0 /\ acc = <<>>)
                    \/ (acc # <<>> /\ acc[Len(acc)] = PARDIR)
                 THEN NormComps(rest, Append(acc, comp), initial)
            ELSE IF acc # <<>>
                 THEN NormComps(rest, Prefix(acc, Len(acc) - 1), initial)
            ELSE NormComps(rest, acc, initial)

\* '/'.join(comps)
RECURSIVE JoinSep(_)
JoinSep(comps) ==
    IF comps = <<>> THEN <<>>
    ELSE IF Len(comps) = 1 THEN comps[1]
    ELSE comps[1] \o <<SEP>> \o JoinSep(Tail(comps))

\* posixpath.normpath(path)
Normpath(path) ==
    IF path = <<>> THEN CURDIR
    ELSE LET slash(k) == Len(path) >= k /\ path[k] = SEP
             initial == IF ~slash(1) THEN 0
                        ELSE IF slash(2) /\ ~slash(3) THEN 2 ELSE 1
             body == JoinSep(NormComps(Components(path), <<>>, initial))
             out == [i \in 1..initial |-> SEP] \o body
         IN IF out = <<>> THEN CURDIR ELSE out

\* os.getcwd() of the Python process.
Cwd == <<SEP, "w">>

\* os.path.abspath(path)
Abspath(path) ==
    IF path # <<>> /\ path[1] = SEP THEN Normpath(path)
    ELSE Normpath(Join(Cwd, path))


(***************************************************************************)
(* Registries and defaults (graphviz.parameters, graphviz._defaults).      *)
(***************************************************************************)
ENGINES == {S("dot"), S("neato")}
FORMATS == {S("bmp"), S("dot"), S("gv"), S("jpeg"), S("jpg"), S("pdf"),
            S("plain"), S("png"), S("svg")}
RENDERERS == {S("cairo"), S("gd")}
FORMATTERS == {S("cairo"), S("gd")}
DEFAULT_SOURCE_EXTENSION == S("gv")

\* An exception or a warning: its class, its message's fixed text and the
\* values the message names, in order.
Msg(type, what, args) ==
    [type |-> type, what |-> what, args |-> args, listed |-> {}]
\* A message that also lists a set of values.
MsgListing(type, what, args, listed) ==
    [type |-> type, what |-> what, args |-> args, listed |-> listed]
NoError == Msg("None", "", <<>>)

\* sorted(parameters.FORMATS), as the messages list it: the set stands for
\* the sorted list.
get_supported_formats == FORMATS

\* ['.' + format for each supported format]
get_supported_suffixes == {<<EXTSEP>> \o f : f \in get_supported_formats}

\* parameters.verify_format(format_): raises ValueError unless registered.
verify_format(format_) == format_ \in FORMATS

\* _get_rendering_format(outfile): the format inferred from the suffix, or
\* the ValueError it raises.
_get_rendering_format(outfile) ==
    LET suffix == Splitext(outfile).ext
    IN IF suffix = <<>>
       THEN [error |-> Msg("ValueError", "missing suffix", <<outfile>>),
             result |-> None]
       ELSE LET format_ == Lower(Tail(suffix))    \* suffix.partition('.')
            IN IF verify_format(format_)
               THEN [error |-> NoError, result |-> format_]
               ELSE [error |-> MsgListing("ValueError", "unknown format",
                                          <<outfile, format_>>,
                                          get_supported_formats),
                     result |-> None]

\* unknown_suffix with the given format normalised on the way out.
unknown_suffix_lowered(outfile, suffix, format) ==
    IF format = None
    THEN [result |-> None, warnings |-> <<>>,
          error |-> MsgListing("RequiredArgumentError",
                               "cannot infer rendering format from suffix",
                               <<suffix, outfile>>, get_supported_suffixes)]
    ELSE [result |-> Lower(format),
          warnings |-> <<Msg("UserWarning", "unknown outfile suffix",
                             <<suffix, <<EXTSEP>> \o format>>)>>,
          error |-> NoError]

\* lines 263-271, the except branch of get_rendering_format: inference
\* failed on suffix.
unknown_suffix(outfile, suffix, format) ==
    IF format = None
    THEN [result |-> None, warnings |-> <<>>,
          error |-> MsgListing("RequiredArgumentError",
                               "cannot infer rendering format from suffix",
                               <<suffix, outfile>>, get_supported_suffixes)]
    ELSE [result |-> format,
          warnings |-> <<Msg("UserWarning", "unknown outfile suffix",
                             <<suffix, <<EXTSEP>> \o format>>)>>,
          error |-> NoError]

\* known_suffix comparing the given format as written, without .lower().
known_suffix_case_sensitive(result, format) ==
    [result |-> result,
     warnings |-> IF format # None /\ format # result
                  THEN <<Msg("UserWarning",
                             "expected format from outfile differs from given format",
                             <<result, format>>)>>
                  ELSE <<>>,
     error |-> NoError]

\* lines 273-278, the else branch of get_rendering_format: result was
\* inferred.
known_suffix(result, format) ==
    [result |-> result,
     warnings |-> IF format # None /\ Lower(format) # result
                  THEN <<Msg("UserWarning",
                             "expected format from outfile differs from given format",
                             <<result, format>>)>>
                  ELSE <<>>,
     error |-> NoError]

\* get_rendering_format(outfile, format=format): the format to render, the
\* warnings emitted and the error raised.
get_rendering_format(outfile, format) ==
    LET inferred == _get_rendering_format(outfile)
    IN IF inferred.error # NoError
       THEN unknown_suffix(outfile, Splitext(outfile).ext, format)
       ELSE known_suffix(inferred.result, format)

\* dot_command.command(engine, format, renderer=, formatter=): the base
\* argument vector, or the error of the first failed validation.
command(engine, format, renderer, formatter) ==
    IF engine \notin ENGINES
    THEN [error |-> Msg("ValueError", "unknown engine", <<engine>>), cmd |-> <<>>]
    ELSE IF format \notin FORMATS
    THEN [error |-> Msg("ValueError", "unknown format", <<format>>), cmd |-> <<>>]
    ELSE IF formatter # None /\ renderer = None
    THEN [error |-> Msg("RequiredArgumentError", "formatter given without renderer",
                        <<formatter>>),
          cmd |-> <<>>]
    ELSE IF renderer # None /\ renderer \notin RENDERERS
    THEN [error |-> Msg("ValueError", "unknown renderer", <<renderer>>), cmd |-> <<>>]
    ELSE IF formatter # None /\ formatter \notin FORMATTERS
    THEN [error |-> Msg("ValueError", "unknown formatter", <<formatter>>), cmd |-> <<>>]
    ELSE [error |-> NoError,
          cmd |-> <<S("dot"), S("-K") \o engine,
                    S("-T") \o format
                      \o (IF renderer # None THEN S(":") \o renderer ELSE <<>>)
                      \o (IF formatter # None THEN S(":") \o formatter ELSE <<>>)>>]

\* os.path.exists(path), in a filesystem of absolute normalised paths.
exists(fs, path) == Abspath(path) \in fs

(***************************************************************************)
(* The decisions of render(), one operator each.                           *)
(***************************************************************************)

\* flags_conflict with the check left out.
flags_conflict_dropped(raise_if_exists, overwrite) == FALSE

\* line 198: raise_if_exists and overwrite
flags_conflict(raise_if_exists, overwrite) == raise_if_exists /\ overwrite

\* required_missing with filepath tested before format.
required_missing_filepath_first(format, filepath) ==
    IF filepath = None THEN "filepath"
    ELSE IF format = None THEN "format"
    ELSE "none"

\* lines 228-233: the argument render() finds missing when outfile is None.
required_missing(format, filepath) ==
    IF format = None THEN "format"
    ELSE IF filepath = None THEN "filepath"
    ELSE "none"

\* default_filepath from the base name alone, losing outfile's directory.
default_filepath_basename(outfile) ==
    Splitext(Split(outfile).tail).root \o <<EXTSEP>> \o DEFAULT_SOURCE_EXTENSION

\* lines 208-210: the input file when only outfile is given.
default_filepath(outfile) ==
    Splitext(outfile).root \o <<EXTSEP>> \o DEFAULT_SOURCE_EXTENSION

\* same_file comparing the directories as written.
same_file_by_spelling(outfile_dirname, outfile_filename, dirname, filename, overwrite) ==
    /\ outfile_filename = filename
    /\ outfile_dirname = dirname
    /\ ~overwrite

\* lines 216-218: the same-file guard.
same_file(outfile_dirname, outfile_filename, dirname, filename, overwrite) ==
    /\ outfile_filename = filename
    /\ Abspath(outfile_dirname) = Abspath(dirname)
    /\ ~overwrite

\* output_arg comparing the directories by absolute path.
output_arg_by_abspath(outfile, outfile_dirname, outfile_filename, dirname) ==
    IF Abspath(outfile_dirname) # Abspath(dirname) THEN Abspath(outfile)
    ELSE outfile_filename

\* lines 222-223: the output argument of -o.
output_arg(outfile, outfile_dirname, outfile_filename, dirname) ==
    IF outfile_dirname # dirname THEN Abspath(outfile) ELSE outfile_filename

\* suffix_chain in the order of the -T flag: format, renderer, formatter.
suffix_chain_flag_order(formatter, renderer, format) ==
    format \o (IF renderer # None THEN <<EXTSEP>> \o renderer ELSE <<>>)
           \o (IF formatter # None THEN <<EXTSEP>> \o formatter ELSE <<>>)

\* lines 244-245: '.'.join of the given ones of formatter, renderer, format.
suffix_chain(formatter, renderer, format) ==
    LET given == SelectSeq(<<formatter, renderer, format>>, LAMBDA a : a # None)
        RECURSIVE dotted(_)
        dotted(xs) == IF Len(xs) = 1 THEN xs[1]
                      ELSE xs[1] \o <<EXTSEP>> \o dotted(Tail(xs))
    IN dotted(given)

\* output_exists never raising.
output_exists_unchecked(raise_if_exists, fs, rendered) == FALSE

\* output_exists raising whatever raise_if_exists is.
output_exists_unconditional(raise_if_exists, fs, rendered) == exists(fs, rendered)

\* line 249: raise_if_exists and os.path.exists(rendered)
output_exists(raise_if_exists, fs, rendered) ==
    raise_if_exists /\ exists(fs, rendered)


(***************************************************************************)
(* Inputs.                                                                 *)
(***************************************************************************)
\* The render() calls the model makes at most in a row.
MaxCalls == 2

\* engine, renderer, formatter: valid alone, with a renderer, with both,
\* a formatter without renderer, an unknown engine.
Selections ==
    {[engine |-> S("dot"), renderer |-> None, formatter |-> None],
     [engine |-> S("dot"), renderer |-> S("cairo"), formatter |-> None],
     [engine |-> S("dot"), renderer |-> S("cairo"), formatter |-> S("gd")],
     [engine |-> S("dot"), renderer |-> None, formatter |-> S("gd")],
     [engine |-> S("bogus"), renderer |-> None, formatter |-> None]}

GivenFormats == {None, S("png"), S("PNG"), S("gv"), S("mp3")}

GivenFilepaths ==
    {None,
     <<"spam", ".", "gv">>,
     <<".", "/", "spam", ".", "gv">>,
     <<"/", "w", "/", "spam", ".", "gv">>,
     <<"sub", "/", "spam", ".", "gv">>}

GivenOutfiles ==
    {None,
     <<"spam", ".", "png">>,
     <<"spam", ".", "PNG">>,
     <<"spam", ".", "gv">>,
     <<".", "/", "spam", ".", "gv">>,
     <<"sub", "/", "spam", ".", "gv">>,
     <<"sub", "/", "spam", ".", "pdf">>,
     <<"/", "w", "/", "spam", ".", "png">>,
     <<"spam", ".", "mp3">>,
     <<"spam">>,
     <<"spam", ".">>,
     <<".", "gv">>}

Requests ==
    {[engine |-> sel.engine, format |-> f, filepath |-> fp,
      renderer |-> sel.renderer, formatter |-> sel.formatter,
      outfile |-> o, raise_if_exists |-> r, overwrite |-> w] :
        sel \in Selections, f \in GivenFormats, fp \in GivenFilepaths,
        o \in GivenOutfiles, r \in BOOLEAN, w \in BOOLEAN}

NoRequest ==
    [engine |-> None, format |-> None, filepath |-> None, renderer |-> None,
     formatter |-> None, outfile |-> None, raise_if_exists |-> FALSE,
     overwrite |-> FALSE]

\* The DOT sources on disk, and outputs of earlier runs that may be there.
SourceFiles == {<<"/", "w", "/", "spam", ".", "gv">>,
                <<"/", "w", "/", "sub", "/", "spam", ".", "gv">>}
OldOutputs == {<<"/", "w", "/", "spam", ".", "png">>,
               <<"/", "w", "/", "spam", ".", "gv", ".", "png">>}

\* Exit of the external process: status 0, non-zero status, no executable.
Outcomes == {"ok", "nonzero", "notfound"}

(***************************************************************************)
(* State.                                                                  *)
(***************************************************************************)
VARIABLES
    req,              \* the arguments of the render() call in progress
    pc,               \* where that call is
    format,           \* render()'s local format
    dirname,          \* render()'s locals from os.path.split(filepath)
    filename,
    outfile_filename, \* the output argument handed to -o
    cmd,              \* the argument vector
    rendered,         \* the predicted output path
    warnings,         \* warnings emitted by the call
    error,            \* the exception the call raised
    result,           \* the value the call returned
    files,            \* the filesystem: absolute paths of existing files
    commandCalls,     \* dot_command.command() calls of this call
    runCalls,         \* execute.run_check() calls of this call
    runCwd,           \* cwd= of the last run_check() of this call
    prev,             \* the call before: its arguments, result and error
    calls             \* render() calls begun

vars == <<req, pc, format, dirname, filename, outfile_filename, cmd, rendered,
          warnings, error, result, files, commandCalls, runCalls, runCwd,
          prev, calls>>

locals == <<format, dirname, filename, outfile_filename, cmd, rendered>>

Init ==
    /\ req = NoRequest
    /\ pc = "idle"
    /\ format = None
    /\ dirname = None
    /\ filename = None
    /\ outfile_filename = None
    /\ cmd = <<>>
    /\ rendered = None
    /\ warnings = <<>>
    /\ error = NoError
    /\ result = None
    /\ files \in {SourceFiles, SourceFiles \cup OldOutputs}
    /\ commandCalls = 0
    /\ runCalls = 0
    /\ runCwd = None
    /\ prev = [req |-> NoRequest, result |-> None, error |-> NoError]
    /\ calls = 0

\* raise: the call ends with the exception e.
Raise(e) ==
    /\ error' = e
    /\ pc' = "done"

(***************************************************************************)
(* render(), lines 151-254, step by step.                                  *)
(***************************************************************************)

\* A caller calls render(): any request first, then the same request again,
\* with raise_if_exists as before or switched.
render ==
    /\ pc \in {"idle", "done"}
    /\ calls < MaxCalls
    /\ \E r \in IF pc = "idle" THEN Requests
                ELSE {[req EXCEPT !.raise_if_exists = b] : b \in BOOLEAN} :
         /\ req' = r
         /\ format' = r.format
    /\ pc' = "flags"
    /\ dirname' = None
    /\ filename' = None
    /\ outfile_filename' = None
    /\ cmd' = <<>>
    /\ rendered' = None
    /\ warnings' = <<>>
    /\ error' = NoError
    /\ result' = None
    /\ commandCalls' = 0
    /\ runCalls' = 0
    /\ runCwd' = None
    /\ prev' = [req |-> req, result |-> result, error |-> error]
    /\ calls' = calls + 1
    /\ UNCHANGED files

\* lines 198-201 and 228: the flags check, then the branch on outfile.
check_flags ==
    /\ pc = "flags"
    /\ IF flags_conflict(req.raise_if_exists, req.overwrite)
       THEN Raise(Msg("ValueError",
                      "overwrite cannot be combined with raise_if_exists", <<>>))
       ELSE /\ pc' = IF req.outfile # None THEN "format" ELSE "required"
            /\ UNCHANGED error
    /\ UNCHANGED <<req, locals, warnings, result, files, commandCalls,
                   runCalls, runCwd, prev, calls>>

\* line 203: format = get_rendering_format(outfile, format=format)
reconcile_format ==
    /\ pc = "format"
    /\ LET got == get_rendering_format(req.outfile, format)
       IN /\ warnings' = warnings \o got.warnings
          /\ IF got.error # NoError
             THEN Raise(got.error) /\ UNCHANGED format
             ELSE /\ format' = got.result
                  /\ pc' = "command"
                  /\ UNCHANGED error
    /\ UNCHANGED <<req, dirname, filename, outfile_filename, cmd, rendered,
                   result, files, commandCalls, runCalls, runCwd, prev, calls>>

\* lines 228-233: format and filepath are required without outfile.
require_arguments ==
    /\ pc = "required"
    /\ LET missing == required_missing(format, req.filepath)
       IN IF missing # "none"
          THEN Raise(Msg("RequiredArgumentError",
                         "required if outfile is not given", <<S(missing)>>))
          ELSE pc' = "command" /\ UNCHANGED error
    /\ UNCHANGED <<req, locals, warnings, result, files, commandCalls,
                   runCalls, runCwd, prev, calls>>

\* lines 205-206 and 236-237: cmd = dot_command.command(...)
build_command ==
    /\ pc = "command"
    /\ commandCalls' = commandCalls + 1
    /\ LET built == command(req.engine, format, req.renderer, req.formatter)
       IN IF built.error # NoError
          THEN Raise(built.error) /\ UNCHANGED cmd
          ELSE /\ cmd' = built.cmd
               /\ pc' = IF req.outfile # None THEN "outfile" ELSE "inferred"
               /\ UNCHANGED error
    /\ UNCHANGED <<req, format, dirname, filename, outfile_filename, rendered,
                   warnings, result, files, runCalls, runCwd, prev, calls>>

\* lines 208-227: the input file, the same-file guard, -o and rendered.
outfile_paths ==
    /\ pc = "outfile"
    /\ LET filepath == IF req.filepath = None THEN default_filepath(req.outfile)
                       ELSE req.filepath
           input == Split(filepath)
           output == Split(req.outfile)
       IN /\ dirname' = input.head
          /\ filename' = input.tail
          /\ IF same_file(output.head, output.tail, input.head, input.tail,
                          req.overwrite)
             THEN /\ Raise(Msg("ValueError",
                               "outfile must be different from input file",
                               <<output.tail, input.tail>>))
                  /\ outfile_filename' = output.tail
                  /\ UNCHANGED <<cmd, rendered>>
             ELSE LET arg == output_arg(req.outfile, output.head, output.tail,
                                        input.head)
                  IN /\ outfile_filename' = arg
                     /\ cmd' = cmd \o <<S("-o"), arg, input.tail>>
                     /\ rendered' = req.outfile       \* os.fspath(outfile)
                     /\ pc' = "exists"
                     /\ UNCHANGED error
    /\ UNCHANGED <<req, format, warnings, result, files, commandCalls,
                   runCalls, runCwd, prev, calls>>

\* lines 239-247: -O and the predicted name.
inferred_paths ==
    /\ pc = "inferred"
    /\ LET input == Split(req.filepath)
           suffix == suffix_chain(req.formatter, req.renderer, format)
       IN /\ dirname' = input.head
          /\ filename' = input.tail
          /\ cmd' = cmd \o <<S("-O"), input.tail>>
          /\ rendered' = Join(input.head, input.tail \o <<EXTSEP>> \o suffix)
    /\ pc' = "exists"
    /\ UNCHANGED <<req, format, outfile_filename, warnings, error, result,
                   files, commandCalls, runCalls, runCwd, prev, calls>>

\* lines 249-250: raise_if_exists and os.path.exists(rendered)
check_exists ==
    /\ pc = "exists"
    /\ IF output_exists(req.raise_if_exists, files, rendered)
       THEN Raise(Msg("FileExistsError", "output file exists", <<rendered>>))
       ELSE pc' = "run" /\ UNCHANGED error
    /\ UNCHANGED <<req, locals, warnings, result, files, commandCalls,
                   runCalls, runCwd, prev, calls>>

\* lines 252-254: execute.run_check(cmd, cwd=dirname or None, ...), then
\* return rendered.  The process writes the output on status 0.
run_check(outcome) ==
    /\ pc = "run"
    /\ runCalls' = runCalls + 1
    /\ runCwd' = IF dirname = <<>> THEN None ELSE dirname
    /\ pc' = "done"
    /\ CASE outcome = "ok" ->
              /\ files' = files \cup {Abspath(rendered)}
              /\ result' = rendered
              /\ UNCHANGED error
         [] outcome = "nonzero" ->
              /\ error' = Msg("CalledProcessError", "non-zero exit status", cmd)
              /\ UNCHANGED <<files, result>>
         [] outcome = "notfound" ->
              /\ error' = Msg("ExecutableNotFound", "failed to execute", cmd)
              /\ UNCHANGED <<files, result>>
    /\ UNCHANGED <<req, locals, warnings, commandCalls, prev, calls>>

Next ==
    \/ render
    \/ check_flags
    \/ reconcile_format
    \/ require_arguments
    \/ build_command
    \/ outfile_paths
    \/ inferred_paths
    \/ check_exists
    \/ \E outcome \in Outcomes : run_check(outcome)

Spec == Init /\ [][Next]_vars

(***************************************************************************)
(* Properties.                                                             *)
(***************************************************************************)

\* The call in progress has both flags set.
Conflicting == req.raise_if_exists /\ req.overwrite

\* The call is in explicit-outfile mode and past get_rendering_format.
Reconciled ==
    /\ req.outfile # None
    /\ ~Conflicting
    /\ pc \in {"command", "outfile", "exists", "run", "done"}

\* The call is in explicit-outfile mode and lines 208-220 have run.
PathsSplit == req.outfile # None /\ filename # None

\* The last n arguments of the command.
LastArgs(n) == SubSeq(cmd, Len(cmd) - n + 1, Len(cmd))

ConflictError ==
    Msg("ValueError", "overwrite cannot be combined with raise_if_exists", <<>>)

SameFileError(outname, inname) ==
    Msg("ValueError", "outfile must be different from input file",
        <<outname, inname>>)

RequiredError(name) ==
    Msg("RequiredArgumentError", "required if outfile is not given", <<S(name)>>)

\* C1: a call with raise_if_exists and overwrite both true ends with the
\* ValueError 'overwrite cannot be combined with raise_if_exists' whatever
\* its other arguments are; it passes no later step, emits no warning,
\* builds no command and invokes no process.
C1_ConflictingFlagsFailFirst ==
    (pc # "idle" /\ Conflicting) =>
        /\ pc \in {"flags", "done"}
        /\ warnings = <<>>
        /\ commandCalls = 0
        /\ runCalls = 0
        /\ pc = "done" => error = ConflictError

\* C1 witness: both flags with an unknown engine, no format, no filepath and
\* an outfile of unknown suffix.
C1_Witness ==
    /\ pc = "done"
    /\ Conflicting
    /\ req.engine = S("bogus")
    /\ req.format = None
    /\ req.filepath = None
    /\ req.outfile = <<"spam", ".", "mp3">>
    /\ error = ConflictError

\* C2: with raise_if_exists, a call whose predicted output path exists ends
\* with FileExistsError naming that path and has invoked no process; the
\* process is only ever invoked with the path absent, and no
\* FileExistsError follows an invocation.
C2_ExistsCheckedBeforeRun ==
    /\ (pc = "run" /\ req.raise_if_exists) => ~exists(files, rendered)
    /\ (pc = "done" /\ req.raise_if_exists /\ rendered # None /\ runCalls = 0
          /\ exists(files, rendered)) =>
            error = Msg("FileExistsError", "output file exists", <<rendered>>)
    /\ error.type = "FileExistsError" =>
            /\ runCalls = 0
            /\ req.raise_if_exists
            /\ exists(files, rendered)

\* C2 witness: a second call, with raise_if_exists, fails on the output the
\* first call's process wrote.
C2_Witness ==
    /\ pc = "done"
    /\ calls = 2
    /\ prev.error = NoError
    /\ prev.result = rendered
    /\ error.type = "FileExistsError"
    /\ runCalls = 0

\* C3: in explicit-outfile mode, once the paths are split, the call ends
\* with the same-file ValueError naming the output and the input filename
\* exactly when the two base filenames are equal, the two directories have
\* the same absolute path and overwrite is false; then no process is
\* invoked.
C3_SameFileGuard ==
    PathsSplit =>
        LET output == Split(req.outfile)
            raised == error = SameFileError(output.tail, filename)
        IN /\ raised <=> /\ output.tail = filename
                         /\ Abspath(output.head) = Abspath(dirname)
                         /\ ~req.overwrite
           /\ raised => (pc = "done" /\ runCalls = 0 /\ rendered = None)
           /\ ~raised => error.what # "outfile must be different from input file"

\* C3 witness: the guard fires for one directory written in two ways.
C3_Witness ==
    /\ PathsSplit
    /\ error.what = "outfile must be different from input file"
    /\ Split(req.outfile).head # dirname
    /\ req.filepath # None

\* C4: without outfile and without conflicting flags, a call with no format
\* ends with RequiredArgumentError naming format (filepath given or not),
\* and a call with a format and no filepath ends with RequiredArgumentError
\* naming filepath; neither builds a command or invokes the process.
C4_RequiredWithoutOutfile ==
    (req.outfile = None /\ ~Conflicting /\ pc \notin {"idle", "flags"}
       /\ (req.format = None \/ req.filepath = None)) =>
        /\ pc \in {"required", "done"}
        /\ commandCalls = 0
        /\ runCalls = 0
        /\ pc = "done" =>
             error = IF req.format = None THEN RequiredError("format")
                     ELSE RequiredError("filepath")

\* C4 witness: neither format nor filepath, and an unknown engine.
C4_Witness ==
    /\ pc = "done"
    /\ req.outfile = None
    /\ req.format = None
    /\ req.filepath = None
    /\ req.engine = S("bogus")
    /\ error = RequiredError("format")

\* C5: for an outfile whose suffix, lower-cased, is a registered format,
\* get_rendering_format returns that lower-cased suffix whatever format is
\* given, and warns (naming both) exactly when a format is given whose
\* lower-cased form differs from it.
C5_KnownSuffixWins ==
    Reconciled =>
        LET suffix == Splitext(req.outfile).ext
            inferred == Lower(Tail(suffix))
        IN (suffix # <<>> /\ inferred \in FORMATS) =>
              /\ format = inferred
              /\ error.what # "cannot infer rendering format from suffix"
              /\ warnings =
                   IF req.format # None /\ Lower(req.format) # inferred
                   THEN <<Msg("UserWarning",
                              "expected format from outfile differs from given format",
                              <<inferred, req.format>>)>>
                   ELSE <<>>

\* C5 witness: an upper-case suffix and the same format given in upper
\* case: the lower-cased suffix is returned and nothing is warned.
C5_Witness ==
    /\ Reconciled
    /\ pc = "command"
    /\ req.outfile = <<"spam", ".", "PNG">>
    /\ req.format = S("PNG")
    /\ format = S("png")
    /\ warnings = <<>>

\* C6: for an outfile whose suffix is missing or, lower-cased, no
\* registered format: without a given format the call ends with
\* RequiredArgumentError naming the suffix and listing the supported
\* suffixes; with one, exactly one warning (the suffix, '.' + format) is
\* emitted and the given format is returned unchanged.
C6_UnknownSuffix ==
    Reconciled =>
        LET suffix == Splitext(req.outfile).ext
        IN (suffix = <<>> \/ Lower(Tail(suffix)) \notin FORMATS) =>
              IF req.format = None
              THEN /\ pc = "done"
                   /\ error = MsgListing("RequiredArgumentError",
                                         "cannot infer rendering format from suffix",
                                         <<suffix, req.outfile>>,
                                         {<<EXTSEP>> \o f : f \in FORMATS})
                   /\ warnings = <<>>
                   /\ commandCalls = 0
              ELSE /\ format = req.format
                   /\ warnings = <<Msg("UserWarning", "unknown outfile suffix",
                                       <<suffix, <<EXTSEP>> \o req.format>>)>>
                   /\ error.what # "cannot infer rendering format from suffix"

\* C6 witness: an unknown suffix with an upper-case format given.
C6_Witness ==
    /\ Reconciled
    /\ pc = "command"
    /\ req.outfile = <<"spam", ".", "mp3">>
    /\ req.format = S("PNG")
    /\ format = S("PNG")
    /\ Len(warnings) = 1

\* The suffix chain of C7, case by case.
ExpectedChain ==
    IF req.formatter # None
    THEN req.formatter \o <<EXTSEP>> \o req.renderer \o <<EXTSEP>> \o req.format
    ELSE IF req.renderer # None THEN req.renderer \o <<EXTSEP>> \o req.format
    ELSE req.format

\* C7: a successful call without outfile has run the base command followed
\* by -O and the input filename, and returns the input's directory joined
\* with <input filename>.<chain>, the chain being formatter, renderer,
\* format (those given) joined with '.'.
C7_InferredName ==
    (pc = "done" /\ req.outfile = None /\ runCalls = 1 /\ error = NoError) =>
        LET input == Split(req.filepath)
            name == input.tail \o <<EXTSEP>> \o ExpectedChain
        IN /\ cmd = command(req.engine, req.format, req.renderer,
                            req.formatter).cmd \o <<S("-O"), input.tail>>
           /\ result = Join(input.head, name)
           /\ (req.filepath = <<"spam", ".", "gv">> /\ req.format = S("png")
                 /\ req.renderer = None) =>
                 result = <<"spam", ".", "gv", ".", "png">>
           /\ (req.filepath = <<"spam", ".", "gv">> /\ req.format = S("png")
                 /\ req.renderer = S("cairo") /\ req.formatter = S("gd")) =>
                 result = <<"spam", ".", "gv", ".", "gd", ".", "cairo", ".", "png">>

\* C7 witness: formatter and renderer given, the input in a subdirectory.
C7_Witness ==
    /\ pc = "done"
    /\ req.outfile = None
    /\ error = NoError
    /\ req.formatter = S("gd")
    /\ req.filepath = <<"sub", "/", "spam", ".", "gv">>
    /\ result = <<"sub", "/", "spam", ".", "gv", ".", "gd", ".", "cairo", ".", "png">>

\* The path a successful call is to return: outfile as given, or the
\* derived name.
ExpectedPath ==
    IF req.outfile # None THEN req.outfile
    ELSE Join(Split(req.filepath).head,
              Split(req.filepath).tail \o <<EXTSEP>> \o ExpectedChain)

\* C8: a call without raise_if_exists that repeats the call before it,
\* which succeeded, gets to invoke the process (the output now on disk
\* stops nothing, so it can only fail in the process) and on status 0
\* returns the same path; the path a call returns is outfile as given or
\* the derived name.
C8_RepeatedCall ==
    /\ (pc = "done" /\ prev.req = req /\ prev.error = NoError
          /\ prev.result # None /\ ~req.raise_if_exists) =>
            /\ runCalls = 1
            /\ error.type \in {"None", "CalledProcessError", "ExecutableNotFound"}
            /\ error = NoError => result = prev.result
    /\ (pc = "done" /\ error = NoError) => result = ExpectedPath

\* C8 witness: the second of two identical successful calls, with the
\* first call's output on disk.
C8_Witness ==
    /\ pc = "done"
    /\ calls = 2
    /\ prev.req = req
    /\ prev.error = NoError
    /\ error = NoError
    /\ ~req.raise_if_exists
    /\ result = prev.result
    /\ result # None

\* C9 as stated: the command ends with -o, the output argument and the
\* input filename; the argument is the bare output filename whenever the
\* two directories are the same directory, however written, and the
\* absolute outfile whenever they are different directories.
C9_Original ==
    (PathsSplit /\ rendered # None) =>
        LET output == Split(req.outfile)
        IN LastArgs(3) =
             <<S("-o"),
               IF Abspath(output.head) = Abspath(dirname) THEN output.tail
               ELSE Abspath(req.outfile),
               filename>>

\* C9, amended: the command ends with -o, the output argument and the input
\* filename; the argument is the bare output filename whenever the two
\* directories are written identically, and the absolute form of outfile
\* otherwise, also when both spellings name one directory.
C9_OutputArgument ==
    (PathsSplit /\ rendered # None) =>
        LET output == Split(req.outfile)
        IN /\ LastArgs(3) =
                <<S("-o"),
                  IF output.head = dirname THEN output.tail
                  ELSE Abspath(req.outfile),
                  filename>>
           /\ outfile_filename = LastArgs(3)[2]

\* C9 witness: input and output in one directory, written '' and '.': the
\* argument is the absolute outfile.
C9_Witness ==
    /\ PathsSplit
    /\ rendered # None
    /\ dirname = <<>>
    /\ Split(req.outfile).head = <<EXTSEP>>
    /\ LastArgs(3)[2] = Abspath(req.outfile)
    /\ runCalls = 1

\* C10: in explicit-outfile mode without filepath the input file is
\* outfile's base name with its suffix replaced by .gv, in outfile's
\* directory; so the output argument is the bare output filename, the
\* process runs in outfile's directory, and an outfile with the suffix .gv
\* ends the call with the same-file ValueError unless overwrite is true.
C10_DefaultFilepath ==
    (PathsSplit /\ req.filepath = None) =>
        LET output == Split(req.outfile)
            same == SameFileError(output.tail, filename)
        IN /\ dirname = output.head
           /\ filename = Splitext(output.tail).root \o <<EXTSEP, "gv">>
           /\ rendered # None =>
                /\ outfile_filename = output.tail
                /\ LastArgs(3) = <<S("-o"), output.tail, filename>>
           /\ runCalls = 1 =>
                runCwd = IF output.head = <<>> THEN None ELSE output.head
           /\ Splitext(req.outfile).ext = <<EXTSEP, "gv">> =>
                IF req.overwrite THEN error # same /\ rendered = req.outfile
                ELSE error = same /\ pc = "done" /\ runCalls = 0

\* C10 witness: outfile sub/spam.gv with overwrite: the input is
\* sub/spam.gv itself and the process runs in sub on the bare names.
C10_Witness ==
    /\ PathsSplit
    /\ req.filepath = None
    /\ req.outfile = <<"sub", "/", "spam", ".", "gv">>
    /\ req.overwrite
    /\ runCalls = 1
    /\ runCwd = S("sub")
    /\ LastArgs(3) = <<S("-o"), <<"spam", ".", "gv">>, <<"spam", ".", "gv">>>>
==========================================================================
